---- MODULE Spec2Model ----
(***************************************************************************)
(* Coffee Journal API (backend/server.py): the coffee_entries table, the   *)
(* per-request database sessions of get_db, the route table of the FastAPI *)
(* app and the five coffee-entries handlers.  A handler is split where it  *)
(* awaits the database, since other requests run between two awaits.      *)
(*                                                                         *)
(* The database is the PostgreSQL server the connection string of line 39  *)
(* names: READ COMMITTED, ids drawn from the table's sequence.  A          *)
(* transaction's writes become visible at its COMMIT.  `await db.commit()` *)
(* is two round trips, the flush and the COMMIT:                           *)
(*  - the INSERT of a create draws its id from the sequence at once and    *)
(*    outside the transaction, and waits for nobody, so INSERT and COMMIT  *)
(*    are two actions and creates commit in any order;                     *)
(*  - the UPDATE or DELETE of a row waits for an earlier uncommitted       *)
(*    writer of that row and then acts on the committed row, so the flush  *)
(*    and COMMIT of a patch or a delete act as one step at the commit.     *)
(***************************************************************************)
EXTENDS Integers, FiniteSets, Sequences, TLC

\* ------------------------------------------------------------- bounds
\* Requests the clients send in one behaviour.
MaxReq == 2

\* ------------------------------------------------------------- values
\* SQL NULL / Python None / JSON null.
NULL == "<null>"
\* The text values requests carry: the empty string and a non-empty one.
Strings == {"", "a"}

\* Fields of CoffeeEntryBase and CoffeeEntryUpdate (no id, no processing).
SchemaFields ==
  {"coffee_name", "roaster", "origin", "roast_level", "brewing_method",
   "rating", "tasting_notes", "date_tried"}

\* Columns of the coffee_entries table.
Columns == SchemaFields \cup {"id", "processing"}

\* Fields of CoffeeEntryResponse: CoffeeEntryBase plus id.
ResponseFields == SchemaFields \cup {"id"}

Resources == {"coffee-entries", "todos", "hands"}

\* ------------------------------------------------------------- inputs
EmptyBody == [k \in {} |-> NULL]

\* The JSON object {k: v}.
One(k, v) == [x \in {k} |-> v]

\* The JSON bodies of the enumerated requests.  Their keys are the required
\* column, one optional column of the schemas (the others are handled by
\* the same lines), the column the schemas lack, and the primary key: the
\* empty body, every body of one key, and coffee_name with a second key.
Bodies ==
  {EmptyBody}
    \cup {One("coffee_name", v) : v \in {NULL} \cup Strings}
    \cup {One("roaster", v) : v \in {NULL, "a"}}
    \cup {One("processing", "a"), One("id", 2)}
    \cup {One("coffee_name", v) @@ One("roaster", "a") : v \in {NULL, "a"}}
    \cup {One("coffee_name", "a") @@ One("processing", "a")}

\* The ids the enumerated requests ask for: stored ones and missing ones.
Ids == {1, 2}

\* ------------------------------------------------------------- state
VARIABLES
  table,       \* rows of coffee_entries (committed state)
  nextId,      \* next value of the id sequence (advanced by every INSERT)
  static,      \* whether the static directory existed when the app was built
  sessions,    \* the open AsyncSession objects
  nextSession, \* identity of the next AsyncSession object
  rq,          \* the requests: what was asked, where the handler stands
  deleted      \* ids for which a DELETE has answered 204

vars == <<table, nextId, static, sessions, nextSession, rq, deleted>>

Reqs == 1..MaxReq

\* A request not yet sent, or answered and torn down.
Blank(pc) ==
  [pc |-> pc, resource |-> "", id |-> 0, body |-> EmptyBody,
   handler |-> "", sess |-> 0, loaded |-> {}, data |-> EmptyBody,
   over |-> {}, status |-> 0, error |-> "", resp |-> {}]

\* A stored row: every column, coffee_name NOT NULL.
Row(id, name, roaster) ==
  [c \in Columns |->
     IF c = "id" THEN id
     ELSE IF c = "coffee_name" THEN name
     ELSE IF c = "roaster" THEN roaster
     ELSE NULL]

\* create_tables keeps the rows an earlier run of the server left: the
\* table starts empty, or with one entry the sequence has numbered 1.
Init ==
  /\ \E t \in {{}, {Row(1, "a", NULL)}} :
       /\ table = t
       /\ nextId = Cardinality(t) + 1
  /\ static \in BOOLEAN
  /\ sessions = {}
  /\ nextSession = 1
  /\ rq = [i \in Reqs |-> Blank("idle")]
  /\ deleted = {}

\* ------------------------------------------------------------- routing
\* The five request shapes of a resource: <<method, path carries an id>>.
Shapes ==
  {<<"GET", FALSE>>, <<"GET", TRUE>>, <<"POST", FALSE>>,
   <<"PATCH", TRUE>>, <<"DELETE", TRUE>>}

\* The route table in registration order: the five coffee-entries routes,
\* then, when the static directory existed at import, the catch-all GET
\* route serve_spa.  A path only the catch-all matches, asked with another
\* method, is 405; a path no route matches is 404.
Route(method, resource, hasId) ==
  IF resource = "coffee-entries"
  THEN CASE method = "GET" /\ ~hasId   -> "get_all_coffee_entries"
         [] method = "GET" /\ hasId    -> "get_coffee_entry"
         [] method = "POST" /\ ~hasId  -> "create_coffee_entry"
         [] method = "PATCH" /\ hasId  -> "patch_coffee_entry"
         [] method = "DELETE" /\ hasId -> "delete_coffee_entry"
         [] OTHER -> "method_not_allowed"
  ELSE IF ~static THEN "not_found"
  ELSE IF method = "GET" THEN "serve_spa"
  ELSE "method_not_allowed"

\* ------------------------------------------------------------- schemas
\* CoffeeEntryCreate: coffee_name is a required str; the other fields of
\* the schema default to None; keys the schema does not name are ignored.
\* Mutant: a null coffee_name passes (Optional[str] in the create schema).
CreateValidOptional(body) == "coffee_name" \in DOMAIN body

CreateValid(body) ==
  "coffee_name" \in DOMAIN body /\ body["coffee_name"] # NULL

ParseCreate(body) ==
  [f \in SchemaFields |-> IF f \in DOMAIN body THEN body[f] ELSE NULL]

\* CoffeeEntryUpdate then model_dump(exclude_unset=True): the fields of the
\* schema the body carries, an explicit null included.
\* Mutant: keys the schema does not name are kept (extra = "allow").
ParseUpdateExtra(body) == body

ParseUpdate(body) ==
  [f \in (DOMAIN body) \cap SchemaFields |-> body[f]]

\* CoffeeEntryResponse (from_attributes): the schema's fields and id.
ToResponse(row) == [f \in ResponseFields |-> row[f]]

\* ------------------------------------------------------------- ORM
\* Mutant: the where clause is lost.
SelectNoWhere(id) == table

\* select(CoffeeEntry).where(CoffeeEntry.id == entry_id)
SelectById(id) == {r \in table : r["id"] = id}

\* CoffeeEntry(coffee_name=..., ..., date_tried=...) flushed with the id the
\* sequence gives: the columns the constructor is not passed are NULL.
NewEntry(entry, id) ==
  [c \in Columns |->
     IF c = "id" THEN id
     ELSE IF c \in DOMAIN entry THEN entry[c]
     ELSE NULL]

\* The id an INSERT draws from the sequence.
InsertId == nextId

\* for field, value in update_data.items(): setattr(db_entry, field, value)
SetAttrs(row, data) ==
  [c \in Columns |-> IF c \in DOMAIN data THEN data[c] ELSE row[c]]

\* The unit of work writes the attributes whose value differs from the
\* value loaded; an attribute set to the value it was loaded with is not
\* part of the UPDATE, and with none changed there is no UPDATE.
Dirty(row, attrs) == {c \in Columns : attrs[c] # row[c]}

\* UPDATE coffee_entries SET <dirty> WHERE id = <id of the loaded row>
Update(row, attrs) ==
  {IF r["id"] = row["id"]
     THEN [c \in Columns |-> IF c \in Dirty(row, attrs) THEN attrs[c] ELSE r[c]]
     ELSE r : r \in table}

\* Mutant: coffee_name is nullable.
FlushOutcomeNullable(row, data) ==
  IF Dirty(row, SetAttrs(row, data)) = {} THEN "ok"
  ELSE IF SelectById(row["id"]) = {} THEN "StaleDataError"
  ELSE "ok"

\* What `await db.commit()` of patch_coffee_entry does with the loaded row
\* and update_data: "ok" (flushed and committed), or the error it raises.
\* StaleDataError: the UPDATE matched no row.  IntegrityError: NOT NULL of
\* coffee_name.
FlushOutcome(row, data) ==
  LET attrs == SetAttrs(row, data) IN
    IF Dirty(row, attrs) = {} THEN "ok"
    ELSE IF SelectById(row["id"]) = {} THEN "StaleDataError"
    ELSE IF attrs["coffee_name"] = NULL THEN "IntegrityError"
    ELSE "ok"

\* Mutant: the loaded entry is written back whole (a merge), whether or
\* not its row is still there.
FlushTableMerge(row, data) ==
  {r \in table : r["id"] # row["id"]} \cup {SetAttrs(row, data)}

\* The table after that commit.
FlushTable(row, data) ==
  IF FlushOutcome(row, data) = "ok" THEN Update(row, SetAttrs(row, data))
  ELSE table

\* DELETE FROM coffee_entries WHERE id = <id of the loaded row>; a DELETE
\* that matches no row is a warning, not an error.
DeleteRow(row) == {r \in table : r["id"] # row["id"]}

\* Mutant: a request is handed a session that is already open, if any.
SharedSession ==
  IF sessions = {} THEN nextSession ELSE CHOOSE s \in sessions : TRUE

\* AsyncSessionLocal(): a new session object per call.
NewSession == nextSession

\* ------------------------------------------------------------- requests
\* Requests arrive in the order of their numbers.
Arrives(i) ==
  /\ rq[i].pc = "idle"
  /\ \A j \in Reqs : j < i => rq[j].pc # "idle"

\* The request as routed: what was asked and the handler the route table
\* gives it.
Routed(method, resource, id, body) ==
  [Blank("closing") EXCEPT
     !.resource = resource, !.id = id, !.body = body,
     !.handler = Route(method, resource, id # 0)]

\* get_db up to its yield: a session of AsyncSessionLocal is opened.
get_db ==
  /\ sessions' = sessions \cup {NewSession}
  /\ nextSession' = nextSession + 1

\* scalar_one_or_none() of a select by id, then the handler's None test:
\* what is raised.  Nothing when one row is found, HTTPException(404) when
\* none is, MultipleResultsFound on more than one.
ScalarError(rows) ==
  IF rows = {} THEN "HTTPException"
  ELSE IF Cardinality(rows) > 1 THEN "MultipleResultsFound"
  ELSE ""

\* The handler has ended with a status and a response body: its locals
\* (the parsed body, the loaded entry, update_data) are gone.  Only the
\* detail of a 422 repeats the input it rejects.
Ended(r, status, resp) ==
  [r EXCEPT !.pc = "closing", !.status = status, !.resp = resp,
            !.body = IF status = 422 THEN @ ELSE EmptyBody,
            !.loaded = {}, !.data = EmptyBody, !.over = {}]

\* The handler raises: HTTPException(404) is the 404 response; every
\* other exception leaves the handler unhandled and is answered 500.
Raised(r, error) ==
  [Ended(r, IF error = "HTTPException" THEN 404 ELSE 500, {})
     EXCEPT !.error = error]

\* The handler goes on to its next await, or raises.
Outcome(r, error, next) ==
  IF error = "" THEN [r EXCEPT !.pc = next] ELSE Raised(r, error)

\* GET /coffee-entries
get_all_coffee_entries(i) ==
  /\ Arrives(i)
  /\ LET r == Routed("GET", "coffee-entries", 0, EmptyBody) IN
       /\ r.handler = "get_all_coffee_entries"
       /\ get_db
       /\ rq' = [rq EXCEPT ![i] =
            Ended([r EXCEPT !.sess = NewSession], 200,
                  {ToResponse(x) : x \in table})]
  /\ UNCHANGED <<table, nextId, static, deleted>>

\* GET /coffee-entries/{entry_id}
get_coffee_entry(i, id) ==
  /\ Arrives(i)
  /\ LET r == Routed("GET", "coffee-entries", id, EmptyBody)
         rows == SelectById(id)
     IN
       /\ r.handler = "get_coffee_entry"
       /\ get_db
       /\ rq' = [rq EXCEPT ![i] =
            IF ScalarError(rows) = ""
            THEN Ended([r EXCEPT !.sess = NewSession], 200,
                       {ToResponse(x) : x \in rows})
            ELSE Raised([r EXCEPT !.sess = NewSession], ScalarError(rows))]
  /\ UNCHANGED <<table, nextId, static, deleted>>

\* POST /coffee-entries up to the flush of `await db.commit()`: the body
\* is validated (422 before the handler runs), the entry is built, added
\* and inserted.  The INSERT takes the next value of the sequence; the row
\* is in the request's transaction only, not yet in the committed table.
create_coffee_entry(i, body) ==
  /\ Arrives(i)
  /\ LET r == Routed("POST", "coffee-entries", 0, body) IN
       /\ r.handler = "create_coffee_entry"
       /\ get_db
       /\ IF ~CreateValid(body)
          THEN /\ rq' = [rq EXCEPT ![i] =
                    Ended([r EXCEPT !.sess = NewSession], 422, {})]
               /\ UNCHANGED nextId
          ELSE /\ LET row == NewEntry(ParseCreate(body), InsertId) IN
                    /\ nextId' = nextId + 1
                    /\ rq' = [rq EXCEPT ![i] =
                         [r EXCEPT !.pc = "commit", !.sess = NewSession,
                                   !.data = ParseCreate(body),
                                   !.loaded = {row}]]
  /\ UNCHANGED <<table, static, deleted>>

\* The COMMIT of `await db.commit()` of create_coffee_entry: the inserted
\* row joins the committed table.
create_commit(i) ==
  /\ rq[i].pc = "commit"
  /\ rq[i].handler = "create_coffee_entry"
  /\ table' = table \cup rq[i].loaded
  /\ rq' = [rq EXCEPT ![i].pc = "refresh"]
  /\ UNCHANGED <<nextId, static, sessions, nextSession, deleted>>

\* `await db.refresh(db_entry)` of create and of patch, and the return: the
\* row is read again by its primary key; InvalidRequestError when it is
\* gone.
refresh(i) ==
  /\ rq[i].pc = "refresh"
  /\ LET row == CHOOSE x \in rq[i].loaded : TRUE
         rows == SelectById(row["id"])
         ok == IF rq[i].handler = "create_coffee_entry" THEN 201 ELSE 200
     IN rq' = [rq EXCEPT ![i] =
          IF Cardinality(rows) = 1
          THEN Ended(@, ok, {ToResponse(x) : x \in rows})
          ELSE Raised(@, "InvalidRequestError")]
  /\ UNCHANGED <<table, nextId, static, sessions, nextSession, deleted>>

\* PATCH /coffee-entries/{entry_id} up to the setattr loop: the row is
\* selected (404 when there is none) and update_data is computed.
patch_coffee_entry(i, id, body) ==
  /\ Arrives(i)
  /\ LET r == Routed("PATCH", "coffee-entries", id, body)
         rows == SelectById(id)
     IN
       /\ r.handler = "patch_coffee_entry"
       /\ get_db
       /\ rq' = [rq EXCEPT ![i] =
            Outcome([r EXCEPT !.sess = NewSession, !.loaded = rows,
                              !.data = ParseUpdate(body)],
                    ScalarError(rows), "commit")]
  /\ UNCHANGED <<table, nextId, static, deleted>>

\* `await db.commit()` of patch_coffee_entry.  Every other PATCH that has
\* read the same entry and not yet committed notes the fields this one
\* supplied (over): the two requests overlap.
patch_commit(i) ==
  /\ rq[i].pc = "commit"
  /\ rq[i].handler = "patch_coffee_entry"
  /\ LET row == CHOOSE x \in rq[i].loaded : TRUE
         out == FlushOutcome(row, rq[i].data)
     IN
       /\ table' = FlushTable(row, rq[i].data)
       /\ rq' = [j \in Reqs |->
            IF j = i
            THEN Outcome(rq[i], IF out = "ok" THEN "" ELSE out, "refresh")
            ELSE IF /\ out = "ok"
                    /\ rq[j].pc = "commit"
                    /\ rq[j].handler = "patch_coffee_entry"
                    /\ rq[j].id = rq[i].id
                 THEN [rq[j] EXCEPT !.over = @ \cup DOMAIN rq[i].data]
                 ELSE rq[j]]
  /\ UNCHANGED <<nextId, static, sessions, nextSession, deleted>>

\* DELETE /coffee-entries/{entry_id} up to the None test.
delete_coffee_entry(i, id) ==
  /\ Arrives(i)
  /\ LET r == Routed("DELETE", "coffee-entries", id, EmptyBody)
         rows == SelectById(id)
     IN
       /\ r.handler = "delete_coffee_entry"
       /\ get_db
       /\ rq' = [rq EXCEPT ![i] =
            Outcome([r EXCEPT !.sess = NewSession, !.loaded = rows],
                    ScalarError(rows), "commit")]
  /\ UNCHANGED <<table, nextId, static, deleted>>

\* `await db.delete(db_entry)`, `await db.commit()` and the 204.
delete_commit(i) ==
  /\ rq[i].pc = "commit"
  /\ rq[i].handler = "delete_coffee_entry"
  /\ LET row == CHOOSE x \in rq[i].loaded : TRUE IN
       /\ table' = DeleteRow(row)
       /\ deleted' = deleted \cup {rq[i].id}
  /\ rq' = [rq EXCEPT ![i] = Ended(@, 204, {})]
  /\ UNCHANGED <<nextId, static, sessions, nextSession>>

\* A request no coffee-entries route matches: serve_spa answers a GET with
\* index.html (200) or "Frontend not found" (404); otherwise the router
\* answers 404 or 405.  No session is opened and no id is parsed from the
\* path.
unrouted(i, method, resource, id) ==
  /\ Arrives(i)
  /\ LET r == [Routed(method, resource, id, EmptyBody) EXCEPT !.id = 0] IN
       /\ r.handler \in {"serve_spa", "not_found", "method_not_allowed"}
       /\ \E index \in BOOLEAN :
            rq' = [rq EXCEPT ![i] =
              [r EXCEPT !.status =
                 CASE r.handler = "serve_spa" -> IF index THEN 200 ELSE 404
                   [] r.handler = "not_found" -> 404
                   [] OTHER -> 405]]
  /\ UNCHANGED <<table, nextId, static, sessions, nextSession, deleted>>

\* The response is sent and get_db resumes after its yield: `async with`
\* closes the session, on a return and on an exception alike.
close(i) ==
  /\ rq[i].pc = "closing"
  /\ sessions' = sessions \ {rq[i].sess}
  /\ rq' = [rq EXCEPT ![i] = Blank("done")]
  /\ UNCHANGED <<table, nextId, static, nextSession, deleted>>

\* One step of one request, the bodies of POST and PATCH drawn from B and
\* the ids asked for from I.
Step(B, I) ==
  \/ \E i \in Reqs : get_all_coffee_entries(i)
  \/ \E i \in Reqs, id \in I : get_coffee_entry(i, id)
  \/ \E i \in Reqs, body \in B : create_coffee_entry(i, body)
  \/ \E i \in Reqs : create_commit(i)
  \/ \E i \in Reqs : refresh(i)
  \/ \E i \in Reqs, id \in I, body \in B : patch_coffee_entry(i, id, body)
  \/ \E i \in Reqs : patch_commit(i)
  \/ \E i \in Reqs, id \in I : delete_coffee_entry(i, id)
  \/ \E i \in Reqs : delete_commit(i)
  \/ \E i \in Reqs, s \in Shapes, res \in Resources \ {"coffee-entries"} :
       unrouted(i, s[1], res, IF s[2] THEN 1 ELSE 0)
  \/ \E i \in Reqs : close(i)

Next == Step(Bodies, Ids)

Spec == Init /\ [][Next]_vars

\* Bodies that take a handler down each of its exit paths (422, 404, a
\* return, an exception raised by commit or by refresh), asked of the first
\* id.
ExitBodies ==
  {EmptyBody, One("coffee_name", NULL), One("coffee_name", "a"),
   One("roaster", "a")}

\* The event loop resumes every handler whose await has completed, and
\* sends every response: a request that can take its next step takes it.
FairSpec ==
  /\ Init
  /\ [][Step(ExitBodies, {1})]_vars
  /\ \A i \in Reqs :
       WF_vars(create_commit(i) \/ refresh(i) \/ patch_commit(i)
                 \/ delete_commit(i) \/ close(i))

\* ------------------------------------------------------------- claims
IdsOf(t) == {r["id"] : r \in t}

InFlight(i) == rq[i].pc \notin {"idle", "done"}

CoffeeHandlers ==
  {"get_all_coffee_entries", "get_coffee_entry", "create_coffee_entry",
   "patch_coffee_entry", "delete_coffee_entry"}

\* Request i has just arrived: the step is the first one of its handler.
Arrived(i) == rq[i].pc = "idle" /\ rq'[i].pc # "idle"

\* The step is the commit of PATCH request i, and it succeeded.
PatchCommitted(i) ==
  /\ rq[i].pc = "commit"
  /\ rq[i].handler = "patch_coffee_entry"
  /\ rq'[i].pc = "refresh"

\* The step is the COMMIT of create request i.
CreateCommitted(i) ==
  /\ rq[i].pc = "commit"
  /\ rq[i].handler = "create_coffee_entry"
  /\ rq'[i].pc = "refresh"

\* The rows creates have inserted and not yet committed.
Pending ==
  UNION {rq[i].loaded :
           i \in {j \in Reqs : /\ rq[j].pc = "commit"
                                /\ rq[j].handler = "create_coffee_entry"}}

\* C1: when the commit of a PATCH succeeds, the entry holds, in every column
\* but id, the value the body supplies for it (null included), and in every
\* column the body leaves out the value it held just before.
C1_PatchStoresSuppliedFields ==
  [][\A i \in Reqs :
       PatchCommitted(i) =>
         \A r \in table, n \in table' :
           (r["id"] = rq[i].id /\ n["id"] = rq[i].id) =>
             /\ Cardinality(table') = Cardinality(table)
             /\ \A c \in Columns \ {"id"} :
                  n[c] = IF c \in DOMAIN rq[i].body THEN rq[i].body[c] ELSE r[c]
    ]_vars

\* C2: once a DELETE has answered 204 for an id, no row of the table has
\* that id, a GET for it answers 404, and a list does not return it, whatever
\* the other requests (a PATCH that read the row before the delete
\* committed included) do.
C2_Gone ==
  /\ [](deleted \cap IdsOf(table) = {})
  /\ [][\A i \in Reqs :
          Arrived(i) =>
            /\ (rq'[i].handler = "get_coffee_entry" /\ rq'[i].id \in deleted)
                 => (rq'[i].status = 404 /\ rq'[i].resp = {})
            /\ rq'[i].handler = "get_all_coffee_entries"
                 => (rq'[i].status = 200 /\ deleted \cap IdsOf(rq'[i].resp) = {})
      ]_vars

\* C2 witness: a GET has answered 404 for an id a DELETE answered 204 for.
C2_Witness ==
  \E i \in Reqs :
    /\ rq[i].handler = "get_coffee_entry"
    /\ rq[i].status = 404
    /\ rq[i].id \in deleted

\* C3: GET, PATCH and DELETE of an id no row has answer 404 with no record
\* in the response, and no step of such a request changes the table.
C3_Missing404 ==
  [][\A i \in Reqs :
       /\ ( /\ Arrived(i)
            /\ rq'[i].handler \in
                 {"get_coffee_entry", "patch_coffee_entry", "delete_coffee_entry"}
            /\ rq'[i].id \notin IdsOf(table) )
          => /\ rq'[i].pc = "closing"
             /\ rq'[i].status = 404
             /\ rq'[i].resp = {}
             /\ table' = table
       /\ (rq[i].status = 404 /\ rq'[i].pc # rq[i].pc) => table' = table
    ]_vars

\* C3 witness: a PATCH of a missing id has answered 404 while another entry
\* is stored.
C3_Witness ==
  \E i \in Reqs :
    /\ rq[i].handler = "patch_coffee_entry"
    /\ rq[i].status = 404
    /\ rq[i].id \notin IdsOf(table)
    /\ table # {}

\* C4 as stated: a POST whose coffee_name is missing or the empty string is
\* not persisted.
C4_EmptyNameRejected ==
  \A i \in Reqs :
    (rq[i].handler = "create_coffee_entry" /\ rq[i].pc = "refresh") =>
      /\ "coffee_name" \in DOMAIN rq[i].body
      /\ rq[i].body["coffee_name"] # ""

\* C4 amended: a POST goes on to insert and commit a row exactly when
\* coffee_name is present and not null (the empty string included), and its
\* commit adds that one row with the name supplied; one whose coffee_name is
\* missing or null is answered 422, inserts nothing and never changes the
\* table.
C4_MissingNameRejected ==
  [][\A i \in Reqs :
       /\ (Arrived(i) /\ rq'[i].handler = "create_coffee_entry") =>
            IF /\ "coffee_name" \in DOMAIN rq'[i].body
               /\ rq'[i].body["coffee_name"] # NULL
            THEN /\ rq'[i].pc = "commit"
                 /\ \E row \in rq'[i].loaded :
                      /\ rq'[i].loaded = {row}
                      /\ row["coffee_name"] = rq'[i].body["coffee_name"]
            ELSE /\ rq'[i].pc = "closing"
                 /\ rq'[i].status = 422
                 /\ rq'[i].loaded = {}
                 /\ nextId' = nextId
                 /\ table' = table
       /\ CreateCommitted(i) =>
            \E row \in table' \ table :
              /\ table' = table \cup {row}
              /\ row["coffee_name"] = rq[i].body["coffee_name"]
       /\ (rq[i].status = 422 /\ rq'[i].pc # rq[i].pc) => table' = table
    ]_vars

\* C4 witness: a POST without coffee_name has been answered 422 and a POST
\* with the empty coffee_name has stored its row.
C4_Witness ==
  \E i, j \in Reqs :
    /\ rq[i].handler = "create_coffee_entry"
    /\ rq[i].status = 422
    /\ "coffee_name" \notin DOMAIN rq[i].body
    /\ rq[j].handler = "create_coffee_entry"
    /\ rq[j].pc = "refresh"
    /\ \E row \in table : row \in rq[j].loaded /\ row["coffee_name"] = ""

\* C5: the row a POST has committed holds, in every column of the model but
\* id, the value the request supplied, and null where it supplied none.
C5_CreateStoresEveryField ==
  \A i \in Reqs :
    (rq[i].handler = "create_coffee_entry" /\ rq[i].pc = "refresh") =>
      \A row \in rq[i].loaded :
        \A c \in Columns \ {"id"} :
          row[c] = IF c \in DOMAIN rq[i].body THEN rq[i].body[c] ELSE NULL

\* C6: no two rows share an id, and the id of a row a create has inserted
\* and not yet committed is the id of no stored row and of no other such
\* row; the commit of a create adds its one row, under an id no row had,
\* and the 201 returns that id; an id leaves the table only through a DELETE
\* that answers 204, enters it only through the commit of a create, and a
\* PATCH changes the id of no row.
C6_UniqueIds ==
  /\ [](/\ \A r, n \in table \cup Pending : r["id"] = n["id"] => r = n
        /\ table \cap Pending = {}
        /\ \A r \in table \cup Pending : r["id"] < nextId)
  /\ [][/\ \A i \in Reqs :
             /\ CreateCommitted(i) =>
                  \E row \in table' \ table :
                    /\ table' = table \cup {row}
                    /\ row["id"] \notin IdsOf(table)
                    /\ rq'[i].loaded = {row}
             /\ (rq[i].handler = "create_coffee_entry" /\ rq'[i].status = 201
                   /\ rq[i].pc = "refresh") =>
                  \E a \in rq'[i].resp :
                    /\ rq'[i].resp = {a}
                    /\ {a["id"]} = IdsOf(rq[i].loaded)
                    /\ Cardinality({r \in table' : r["id"] = a["id"]}) = 1
             /\ PatchCommitted(i) => IdsOf(table') = IdsOf(table)
        /\ Cardinality(table') = Cardinality(IdsOf(table'))
        /\ IdsOf(table) \ IdsOf(table') \subseteq deleted'
        /\ IdsOf(table') \ IdsOf(table) \subseteq IdsOf(Pending)
      ]_vars

\* C6 witness: two creates overlapped and the later INSERT committed
\* first: a create has answered 201 with an id that is stored once, while the
\* row of a smaller id is still uncommitted.
C6_Witness ==
  \E i \in Reqs :
    /\ rq[i].handler = "create_coffee_entry"
    /\ rq[i].status = 201
    /\ \E a \in rq[i].resp, r \in Pending : r["id"] < a["id"]
    /\ \A a \in rq[i].resp : Cardinality({r \in table : r["id"] = a["id"]}) = 1

\* C7: every request of the five shapes, for each of the three resources,
\* is run by one of the resource handlers.
C7_EveryResourceServed ==
  \A i \in Reqs :
    (InFlight(i) /\ rq[i].resource \in Resources) =>
      rq[i].handler \in CoffeeHandlers

\* C8: when a PATCH commits after another PATCH that it overlapped with has
\* committed, every field both supplied holds the value of the later commit.
C8_LastCommitWins ==
  [][\A i \in Reqs :
       PatchCommitted(i) =>
         \A n \in table' :
           n["id"] = rq[i].id =>
             \A c \in (DOMAIN rq[i].data) \cap rq[i].over :
               n[c] = rq[i].data[c]
    ]_vars

\* C9: the open sessions are those of the requests in progress, one per
\* request and none shared, every coffee-entries request has one, and every
\* open session is eventually closed.
C9_SessionInv ==
  /\ \A i, j \in Reqs :
       (i # j /\ InFlight(i) /\ InFlight(j) /\ rq[i].sess # 0)
         => rq[i].sess # rq[j].sess
  /\ \A i \in Reqs :
       (InFlight(i) /\ rq[i].handler \in CoffeeHandlers)
         => (rq[i].sess # 0 /\ rq[i].sess \in sessions)
  /\ sessions \subseteq {rq[i].sess : i \in {j \in Reqs : InFlight(j)}}

C9_SessionsClosed ==
  /\ []C9_SessionInv
  /\ \A s \in 1..MaxReq : (s \in sessions) ~> (s \notin sessions)

\* C9 witness: a request has finished and its session is closed, while a
\* PATCH whose commit raised holds the only open session.
C9_Witness ==
  \E i, j \in Reqs :
    /\ rq[i].pc = "done"
    /\ InFlight(j)
    /\ rq[j].error = "IntegrityError"
    /\ sessions = {rq[j].sess}

\* C10: no stored entry has a null coffee_name; a PATCH that sets coffee_name
\* to null reaches its commit (it passed validation), and the commit raises
\* (500, neither 200 nor 404 nor 422) and leaves the table as it was.
C10_NameNeverNull ==
  /\ [](\A r \in table : r["coffee_name"] # NULL)
  /\ [][\A i \in Reqs :
          /\ ( /\ Arrived(i)
               /\ rq'[i].handler = "patch_coffee_entry"
               /\ rq'[i].id \in IdsOf(table)
               /\ "coffee_name" \in DOMAIN rq'[i].body
               /\ rq'[i].body["coffee_name"] = NULL )
             => (rq'[i].pc = "commit" /\ rq'[i].data["coffee_name"] = NULL)
          /\ ( /\ rq[i].pc = "commit"
               /\ rq[i].handler = "patch_coffee_entry"
               /\ "coffee_name" \in DOMAIN rq[i].data
               /\ rq[i].data["coffee_name"] = NULL
               /\ rq'[i].pc # "commit" )
             => /\ rq'[i].pc = "closing"
                /\ rq'[i].status = 500
                /\ rq'[i].error \in {"IntegrityError", "StaleDataError"}
                /\ table' = table
      ]_vars

\* C10 witness: a PATCH with coffee_name null has raised IntegrityError and
\* is answered 500, and the entry is stored with the name it had.
C10_Witness ==
  \E i \in Reqs :
    /\ rq[i].handler = "patch_coffee_entry"
    /\ rq[i].error = "IntegrityError"
    /\ rq[i].status = 500
    /\ \E r \in table : r["id"] = rq[i].id /\ r["coffee_name"] = "a"

====
